---- MODULE Spec2Model ----
(***************************************************************************)
(* Catalog API: products with dynamically declared properties (EAV).       *)
(* The four tables of app/models.py are the state; every router handler    *)
(* (app/routers/*.py) is one action.  A handler is a pure function of the  *)
(* database and the request, written as an operator returning the new      *)
(* database and the HTTP response; the action stores both.                 *)
(*                                                                         *)
(* Spec        the handlers that write (create and delete of properties    *)
(*             and products) and get_product, from the empty database.     *)
(* SpecCatalog the handlers that only read (get_catalog, catalog_filter),  *)
(*             each on a database that a script of write requests built.   *)
(* SpecRange   get_catalog under bounds on an Integer property, on stores  *)
(*             of three products.                                          *)
(* SpecRace    two create_product requests of one uid served at once, the  *)
(*             handler split at its queries and its commit.                *)
(***************************************************************************)
EXTENDS Integers, Sequences, FiniteSets, TLC

VARIABLES
    properties,          \* table properties: uid -> [name, type]
    property_values,     \* table property_values, in id order
    products,            \* table products: uid -> [name]
    product_properties,  \* table product_properties, in id order
    fkEnforced,          \* does the storage engine enforce FOREIGN KEY constraints
    resp,                \* the response of the last request
    sessions             \* the create_product requests being served at once,
                         \* each with its place in the handler

vars == <<properties, property_values, products, product_properties, fkEnforced,
          resp, sessions>>

-----------------------------------------------------------------------------
(* Bounds and input alphabets *)

\* longest attribute list of one create_product request
MaxAttrs == 2
\* most rows the product_properties table is let to hold
MaxRows == 2

\* Python's None for Optional[str] fields
None == "<None>"
\* Optional[int] is a sequence: <<>> is None, <<n>> is n
NoInt == <<>>

PropUids == {"size", "count"}
ProdUids == {"p1", "p2"}
PropNames == {"N"}
\* product names are sequences of characters (LIKE and ORDER BY work on characters)
ProductNames == {<<"t", "v">>, <<"T">>}

\* the 'values' lists a create_property request may carry
ValueLists ==
    { <<>>,
      <<[value_uid |-> "a", value |-> "A"], [value_uid |-> "b", value |-> "B"]>>,
      <<[value_uid |-> "a", value |-> "A"], [value_uid |-> "a", value |-> "B"]>> }

\* request bodies of POST /properties/: a Dict, 'values' may be absent
PropertyInputs ==
    [uid : PropUids, name : PropNames, type : {"list", "int", "bool"}]
    \cup [uid : PropUids, name : PropNames, type : {"list", "int"}, values : ValueLists]

\* ProductPropertyCreate
AttrInputs ==
    { [uid |-> "size", value_uid |-> None, value |-> <<5>>],
      [uid |-> "size", value_uid |-> None, value |-> NoInt],
      [uid |-> "size", value_uid |-> "a", value |-> NoInt],
      [uid |-> "count", value_uid |-> "a", value |-> NoInt],
      [uid |-> "count", value_uid |-> "b", value |-> NoInt],
      [uid |-> "nope", value_uid |-> "a", value |-> <<5>>] }

SeqsUpTo(S, n) == UNION { [1..k -> S] : k \in 0..n }

\* ProductCreate
ProductInputs ==
    [uid : ProdUids, name : {<<"t", "v">>}, properties : SeqsUpTo(AttrInputs, MaxAttrs)]

-----------------------------------------------------------------------------
(* The database *)

DB ==
    [properties |-> properties, property_values |-> property_values,
     products |-> products, product_properties |-> product_properties,
     fkEnforced |-> fkEnforced]

EmptyFn == [x \in {} |-> x]

EmptyDB(fk) ==
    [properties |-> EmptyFn, property_values |-> <<>>,
     products |-> EmptyFn, product_properties |-> <<>>,
     fkEnforced |-> fk]

\* Property.values: the PropertyValue rows of a property, in id order
PropertyValuesOf(db, uid) ==
    LET mine(pv) == pv.property_uid = uid IN SelectSeq(db.property_values, mine)

\* Product.properties: the ProductProperty rows of a product, in id order
ProductPropertiesOf(db, uid) ==
    LET mine(pp) == pp.product_uid = uid IN SelectSeq(db.product_properties, mine)

Without(f, k) == [x \in DOMAIN f \ {k} |-> f[x]]
With(f, k, v) == [x \in DOMAIN f \cup {k} |-> IF x = k THEN v ELSE f[x]]

-----------------------------------------------------------------------------
(* POST /properties/ *)

create_property_rows(prop_in) ==
    [i \in 1..Len(prop_in.values) |->
        [property_uid |-> prop_in.uid,
         value_uid |-> prop_in.values[i].value_uid,
         value |-> prop_in.values[i].value]]

create_property(db, prop_in) ==
    IF prop_in.type \notin {"list", "int"}
    THEN [db |-> db, resp |-> [op |-> "create_property", uid |-> prop_in.uid,
                               status |-> 400, detail |-> "InvalidSchema"]]
    ELSE IF prop_in.uid \in DOMAIN db.properties
    THEN [db |-> db, resp |-> [op |-> "create_property", uid |-> prop_in.uid,
                               status |-> 400, detail |-> "DuplicateKey"]]
    ELSE IF prop_in.type = "list"
    THEN IF "values" \notin DOMAIN prop_in \/ Len(prop_in.values) = 0
         THEN [db |-> db, resp |-> [op |-> "create_property", uid |-> prop_in.uid,
                                    status |-> 400, detail |-> "InvalidSchema"]]
         ELSE [db |-> [db EXCEPT
                        !.properties = With(@, prop_in.uid,
                                            [name |-> prop_in.name, type |-> "list"]),
                        !.property_values = @ \o create_property_rows(prop_in)],
               resp |-> [op |-> "create_property", uid |-> prop_in.uid,
                         status |-> 201, detail |-> "created"]]
    ELSE [db |-> [db EXCEPT
                   !.properties = With(@, prop_in.uid,
                                       [name |-> prop_in.name, type |-> "int"])],
          resp |-> [op |-> "create_property", uid |-> prop_in.uid,
                    status |-> 201, detail |-> "created"]]

(* DELETE /properties/{uid} *)

delete_property(db, uid) ==
    IF uid \notin DOMAIN db.properties
    THEN [db |-> db, resp |-> [op |-> "delete_property", uid |-> uid,
                               status |-> 404, detail |-> "NotFound"]]
    ELSE IF db.fkEnforced
            /\ \E i \in 1..Len(db.product_properties) :
                  db.product_properties[i].property_uid = uid
    THEN \* the commit violates product_properties.property_uid -> properties.uid
         [db |-> db, resp |-> [op |-> "delete_property", uid |-> uid,
                               status |-> 500, detail |-> "IntegrityError"]]
    ELSE LET others(pv) == pv.property_uid # uid IN
         [db |-> [db EXCEPT
                   !.properties = Without(@, uid),
                   !.property_values = SelectSeq(@, others)],
          resp |-> [op |-> "delete_property", uid |-> uid,
                    status |-> 200, detail |-> "deleted"]]

-----------------------------------------------------------------------------
(* app/routers/product.py *)

\* get_property_value: the text of the first PropertyValue with that value_uid
RECURSIVE get_property_value_from(_, _, _)
get_property_value_from(values, value_uid, i) ==
    IF i > Len(values) THEN None
    ELSE IF values[i].value_uid = value_uid THEN values[i].value
    ELSE get_property_value_from(values, value_uid, i + 1)

get_property_value(db, property_uid, value_uid) ==
    get_property_value_from(PropertyValuesOf(db, property_uid), value_uid, 1)

\* the body of the loop over prod.properties in get_product and get_catalog.
\* 'value' is Optional[Union[int, str]]: an integer, a text, or neither
prop_data(db, pp) ==
    IF db.properties[pp.property_uid].type = "list"
    THEN [uid |-> pp.property_uid,
          name |-> db.properties[pp.property_uid].name,
          value_uid |-> pp.value_uid,
          value |-> [int |-> NoInt,
                     text |-> IF pp.value_uid \notin {None, ""}
                              THEN get_property_value(db, pp.property_uid, pp.value_uid)
                              ELSE None]]
    ELSE [uid |-> pp.property_uid,
          name |-> db.properties[pp.property_uid].name,
          value_uid |-> None,
          value |-> [int |-> pp.int_value, text |-> None]]

\* the product as get_product and get_catalog expand it; "crash" when some
\* pp.property is None (AttributeError on pp.property.uid)
expand_product(db, uid) ==
    LET pps == ProductPropertiesOf(db, uid) IN
    IF \E i \in 1..Len(pps) : pps[i].property_uid \notin DOMAIN db.properties
    THEN [crash |-> TRUE]
    ELSE [crash |-> FALSE,
          body |-> [uid |-> uid, name |-> db.products[uid].name,
                    properties |-> [i \in 1..Len(pps) |-> prop_data(db, pps[i])]]]

(* GET /product/{uid} *)
get_product(db, uid) ==
    IF uid \notin DOMAIN db.products
    THEN [db |-> db, resp |-> [op |-> "get_product", uid |-> uid,
                               status |-> 404, detail |-> "NotFound"]]
    ELSE LET product == expand_product(db, uid) IN
         IF product.crash
         THEN [db |-> db, resp |-> [op |-> "get_product", uid |-> uid,
                                    status |-> 500, detail |-> "AttributeError"]]
         ELSE [db |-> db, resp |-> [op |-> "get_product", uid |-> uid,
                                    status |-> 200, detail |-> "ok",
                                    body |-> product.body]]

(* POST /product/ *)

\* one pass of the loop over product_in.properties: the error it raises, or
\* the ProductProperty it appends to product.properties
product_prop(db, product_uid, prop) ==
    IF prop.uid \notin DOMAIN db.properties
    THEN [error |-> "UnknownProperty"]
    ELSE IF db.properties[prop.uid].type = "list"
    THEN IF prop.value_uid \in {None, ""}
         THEN [error |-> "MissingValue"]
         ELSE IF ~ \E i \in 1..Len(db.property_values) :
                      /\ db.property_values[i].property_uid = prop.uid
                      /\ db.property_values[i].value_uid = prop.value_uid
         THEN [error |-> "InvalidValue"]
         ELSE [error |-> "", row |-> [product_uid |-> product_uid, property_uid |-> prop.uid,
                                     int_value |-> NoInt, value_uid |-> prop.value_uid]]
    ELSE IF prop.value = NoInt
         THEN [error |-> "MissingValue"]
         ELSE [error |-> "", row |-> [product_uid |-> product_uid, property_uid |-> prop.uid,
                                     int_value |-> prop.value, value_uid |-> None]]

\* a loop that keeps one assignment per property, dropping the later ones
RECURSIVE product_props_one_per_property(_, _, _, _)
product_props_one_per_property(db, product_in, i, acc) ==
    IF i > Len(product_in.properties) THEN [error |-> "", at |-> 0, rows |-> acc]
    ELSE LET one == product_prop(db, product_in.uid, product_in.properties[i]) IN
         IF one.error # "" THEN [error |-> one.error, at |-> i, rows |-> acc]
         ELSE IF \E k \in 1..Len(acc) : acc[k].property_uid = one.row.property_uid
         THEN product_props_one_per_property(db, product_in, i + 1, acc)
         ELSE product_props_one_per_property(db, product_in, i + 1, Append(acc, one.row))

\* the loop: stops at the first attribute that raises (at: its position)
RECURSIVE product_props(_, _, _, _)
product_props(db, product_in, i, acc) ==
    IF i > Len(product_in.properties) THEN [error |-> "", at |-> 0, rows |-> acc]
    ELSE LET one == product_prop(db, product_in.uid, product_in.properties[i]) IN
         IF one.error # "" THEN [error |-> one.error, at |-> i, rows |-> acc]
         ELSE product_props(db, product_in, i + 1, Append(acc, one.row))

\* a handler that adds the product and each assignment to the store as it goes
create_product_eager(db, product_in) ==
    IF product_in.uid \in DOMAIN db.products
    THEN [db |-> db, resp |-> [op |-> "create_product", uid |-> product_in.uid,
                               status |-> 400, detail |-> "DuplicateKey", at |-> 0]]
    ELSE LET built == product_props(db, product_in, 1, <<>>)
             stored == [db EXCEPT
                         !.products = With(@, product_in.uid, [name |-> product_in.name]),
                         !.product_properties = @ \o built.rows] IN
         IF built.error # ""
         THEN [db |-> stored, resp |-> [op |-> "create_product", uid |-> product_in.uid,
                                        status |-> 400, detail |-> built.error,
                                        at |-> built.at]]
         ELSE [db |-> stored, resp |-> [op |-> "create_product", uid |-> product_in.uid,
                                        status |-> 201, detail |-> "created", at |-> 0,
                         request |-> product_in]]

create_product(db, product_in) ==
    IF product_in.uid \in DOMAIN db.products
    THEN [db |-> db, resp |-> [op |-> "create_product", uid |-> product_in.uid,
                               status |-> 400, detail |-> "DuplicateKey", at |-> 0]]
    ELSE LET built == product_props(db, product_in, 1, <<>>) IN
         IF built.error # ""
         THEN \* the exception leaves the session without anything added to it
              [db |-> db, resp |-> [op |-> "create_product", uid |-> product_in.uid,
                                    status |-> 400, detail |-> built.error,
                                    at |-> built.at]]
         ELSE \* db.add(product); db.commit()
              [db |-> [db EXCEPT
                        !.products = With(@, product_in.uid, [name |-> product_in.name]),
                        !.product_properties = @ \o built.rows],
               resp |-> [op |-> "create_product", uid |-> product_in.uid,
                         status |-> 201, detail |-> "created", at |-> 0,
                         request |-> product_in]]

(* DELETE /product/{uid} *)
\* a delete that removes the products row alone
delete_product_orphaning(db, uid) ==
    IF uid \notin DOMAIN db.products
    THEN [db |-> db, resp |-> [op |-> "delete_product", uid |-> uid,
                               status |-> 404, detail |-> "NotFound"]]
    ELSE [db |-> [db EXCEPT !.products = Without(@, uid)],
          resp |-> [op |-> "delete_product", uid |-> uid,
                    status |-> 200, detail |-> "deleted"]]

delete_product(db, uid) ==
    IF uid \notin DOMAIN db.products
    THEN [db |-> db, resp |-> [op |-> "delete_product", uid |-> uid,
                               status |-> 404, detail |-> "NotFound"]]
    ELSE LET others(pp) == pp.product_uid # uid IN
         [db |-> [db EXCEPT
                   !.products = Without(@, uid),
                   !.product_properties = SelectSeq(@, others)],
          resp |-> [op |-> "delete_product", uid |-> uid,
                    status |-> 200, detail |-> "deleted"]]

-----------------------------------------------------------------------------
(* app/routers/catalog.py: the filter parser *)

\* request.query_params.items(): a dict built from the list of (key, value)
\* pairs, so a repeated key keeps its first place and its last value.
\* A key is the sequence of its parts between underscores (key.split('_')).
RECURSIVE query_items(_, _)
query_items(params, acc) ==
    IF params = <<>> THEN acc
    ELSE LET kv == Head(params) IN
         IF \E i \in 1..Len(acc) : acc[i].key = kv.key
         THEN query_items(Tail(params),
                          [i \in 1..Len(acc) |->
                              IF acc[i].key = kv.key THEN kv ELSE acc[i]])
         ELSE query_items(Tail(params), Append(acc, kv))

\* '_'.join(parts) for the parts the model's keys carry
JoinMany == [parts \in {<<"size", "from">>} |-> "size_from"]

Join(parts) ==
    IF Len(parts) = 0 THEN ""
    ELSE IF Len(parts) = 1 THEN parts[1]
    ELSE JoinMany[parts]

\* filters[prop_uid] = {'from': None, 'to': None, 'values': []} when absent
filters_setdefault(filters, prop_uid) ==
    IF \E i \in 1..Len(filters) : filters[i].prop_uid = prop_uid
    THEN filters
    ELSE Append(filters, [prop_uid |-> prop_uid, from |-> None, to |-> None,
                          values |-> <<>>])

\* the loop over the query parameters; filters is a dict in insertion order
RECURSIVE parse_filters(_, _)
parse_filters(items, filters) ==
    IF items = <<>> THEN filters
    ELSE LET parts == Head(items).key
             value == Head(items).value
             last == parts[Len(parts)] IN
         IF ~ (Len(parts) >= 2 /\ parts[1] = "property")
         THEN parse_filters(Tail(items), filters)
         ELSE IF last \in {"from", "to"}
         THEN LET prop_uid == Join(SubSeq(parts, 2, Len(parts) - 1))
                  fs == filters_setdefault(filters, prop_uid) IN
              parse_filters(Tail(items),
                  [i \in 1..Len(fs) |->
                      IF fs[i].prop_uid # prop_uid THEN fs[i]
                      ELSE IF last = "from" THEN [fs[i] EXCEPT !.from = value]
                      ELSE [fs[i] EXCEPT !.to = value]])
         ELSE LET prop_uid == Join(SubSeq(parts, 2, Len(parts)))
                  fs == filters_setdefault(filters, prop_uid) IN
              parse_filters(Tail(items),
                  [i \in 1..Len(fs) |->
                      IF fs[i].prop_uid # prop_uid THEN fs[i]
                      ELSE [fs[i] EXCEPT !.values = Append(@, value)]])

request_filters(params) == parse_filters(query_items(params, <<>>), <<>>)

\* int(s) for the strings the model's requests carry; any other string
\* raises ValueError
IntOf == [s \in {"5", "10", "16"} |->
            CASE s = "5" -> 5 [] s = "10" -> 10 [] s = "16" -> 16]

\* is a bound given: None and '' are falsy
given(bound) == bound \notin {None, ""}

\* building the query raises ValueError on a bound that is no number
filters_raise(filters) ==
    \E i \in 1..Len(filters) :
        /\ filters[i].values = <<>>
        /\ \/ given(filters[i].from) /\ filters[i].from \notin DOMAIN IntOf
           \/ given(filters[i].to) /\ filters[i].to \notin DOMAIN IntOf

-----------------------------------------------------------------------------
(* app/routers/catalog.py: the query *)

Lower(c) == CASE c = "T" -> "t" [] c = "V" -> "v" [] OTHER -> c

\* s LIKE pattern, case-insensitive: % is any run of characters, _ any one
RECURSIVE ilike(_, _)
ilike(s, pattern) ==
    IF pattern = <<>> THEN s = <<>>
    ELSE IF Head(pattern) = "%"
    THEN ilike(s, Tail(pattern)) \/ (s # <<>> /\ ilike(Tail(s), pattern))
    ELSE /\ s # <<>>
         /\ Head(pattern) = "_" \/ Lower(Head(pattern)) = Lower(Head(s))
         /\ ilike(Tail(s), Tail(pattern))

\* db.query(Product) narrowed by Product.name.ilike(f'%{name}%') if name
name_filtered(db, name) ==
    IF name = <<>> THEN DOMAIN db.products
    ELSE { uid \in DOMAIN db.products :
             ilike(db.products[uid].name, <<"%">> \o name \o <<"%">>) }

\* a WHERE clause that applies the bounds next to the value list
alias_matches_both(pp, product_uid, condition) ==
    /\ pp.product_uid = product_uid
    /\ pp.property_uid = condition.prop_uid
    /\ condition.values # <<>>
          => \E k \in 1..Len(condition.values) : pp.value_uid = condition.values[k]
    /\ (given(condition.from) /\ condition.from \in DOMAIN IntOf)
          => (pp.int_value # NoInt /\ pp.int_value[1] >= IntOf[condition.from])
    /\ (given(condition.to) /\ condition.to \in DOMAIN IntOf)
          => (pp.int_value # NoInt /\ pp.int_value[1] <= IntOf[condition.to])

\* a WHERE clause whose range comparisons are strict
alias_matches_exclusive(pp, product_uid, condition) ==
    /\ pp.product_uid = product_uid
    /\ pp.property_uid = condition.prop_uid
    /\ IF condition.values # <<>>
       THEN \E k \in 1..Len(condition.values) : pp.value_uid = condition.values[k]
       ELSE /\ given(condition.from)
                => (pp.int_value # NoInt /\ pp.int_value[1] > IntOf[condition.from])
            /\ given(condition.to)
                => (pp.int_value # NoInt /\ pp.int_value[1] < IntOf[condition.to])

\* the WHERE clause on one alias of product_properties; a comparison with a
\* NULL column is not true
alias_matches(pp, product_uid, condition) ==
    /\ pp.product_uid = product_uid
    /\ pp.property_uid = condition.prop_uid
    /\ IF condition.values # <<>>
       THEN \E k \in 1..Len(condition.values) : pp.value_uid = condition.values[k]
       ELSE /\ given(condition.from)
                => (pp.int_value # NoInt /\ pp.int_value[1] >= IntOf[condition.from])
            /\ given(condition.to)
                => (pp.int_value # NoInt /\ pp.int_value[1] <= IntOf[condition.to])

\* a query whose filters are alternatives: a row needs one alias to match
joined_rows_any(db, name, filters) ==
    { r \in [uid : name_filtered(db, name),
             alias : [1..Len(filters) -> 1..Len(db.product_properties)]] :
        Len(filters) > 0 =>
            \E k \in 1..Len(filters) :
                alias_matches(db.product_properties[r.alias[k]], r.uid, filters[k]) }

\* the rows of the joined query: a product with, for every filter, one row
\* of that filter's alias of product_properties
joined_rows(db, name, filters) ==
    { r \in [uid : name_filtered(db, name),
             alias : [1..Len(filters) -> 1..Len(db.product_properties)]] :
        \A k \in 1..Len(filters) :
            alias_matches(db.product_properties[r.alias[k]], r.uid, filters[k]) }

\* query.distinct(): the products of the rows
distinct_products(rows) == { r.uid : r \in rows }

\* ORDER BY of a string column, by character codes
CharCode == [c \in {"T", "V", "_", "t", "v"} |->
               CASE c = "T" -> 84 [] c = "V" -> 86 [] c = "_" -> 95
                 [] c = "t" -> 116 [] c = "v" -> 118]

RECURSIVE NameLess(_, _)
NameLess(a, b) ==
    IF b = <<>> THEN FALSE
    ELSE IF a = <<>> THEN TRUE
    ELSE IF Head(a) # Head(b) THEN CharCode[Head(a)] < CharCode[Head(b)]
    ELSE NameLess(Tail(a), Tail(b))

UidCode == [uid \in {"p1", "p2", "p3"} |->
              CASE uid = "p1" -> 1 [] uid = "p2" -> 2 [] uid = "p3" -> 3]

\* may a row of product a come before a row of product b under the ORDER BY
\* of the query: Product.name alone for sort = 'name', Product.uid otherwise
order_by_allows(db, sort, a, b) ==
    IF sort = "name"
    THEN ~ NameLess(db.products[b].name, db.products[a].name)
    ELSE UidCode[a] <= UidCode[b]

\* every order the storage engine may return the rows in: each row once,
\* sorted by the ORDER BY column, rows that compare equal in any order
ordered_rows(db, sort, rows) ==
    LET n == Cardinality(rows) IN
    { s \in [1..n -> rows] :
        /\ \A i, k \in 1..n : i # k => s[i] # s[k]
        /\ \A i, k \in 1..n : i < k => order_by_allows(db, sort, s[i].uid, s[k].uid) }

\* the ORM keeps the first of the rows of one product (joined eager loading
\* of a collection makes Query.all() unique its entities)
RECURSIVE uniqued(_, _)
uniqued(rows, acc) ==
    IF rows = <<>> THEN acc
    ELSE IF \E i \in 1..Len(acc) : acc[i] = Head(rows).uid
    THEN uniqued(Tail(rows), acc)
    ELSE uniqued(Tail(rows), Append(acc, Head(rows).uid))

\* OFFSET (page - 1) * page_size LIMIT page_size on the rows of the query
paginate(ordered, page, page_size) ==
    LET first == (page - 1) * page_size + 1
        last == IF page * page_size < Len(ordered) THEN page * page_size ELSE Len(ordered) IN
    IF first > last THEN <<>> ELSE SubSeq(ordered, first, last)

\* the entities of a page of rows
page_products(ordered, page, page_size) ==
    uniqued(paginate(ordered, page, page_size), <<>>)

(* GET /catalog/ : the set of responses the request may get *)
get_catalog(db, request) ==
    LET filters == request_filters(request.params) IN
    IF filters_raise(filters)
    THEN { [db |-> db, resp |-> [op |-> "get_catalog", status |-> 500,
                                 detail |-> "ValueError", request |-> request]] }
    ELSE LET rows == joined_rows(db, request.name, filters)
             total_count == Cardinality(distinct_products(rows)) IN
         { LET uids == page_products(ordered, request.page, request.page_size)
               expanded == [i \in 1..Len(uids) |-> expand_product(db, uids[i])] IN
           IF \E i \in 1..Len(uids) : expanded[i].crash
           THEN [db |-> db, resp |-> [op |-> "get_catalog", status |-> 500,
                                      detail |-> "AttributeError", request |-> request]]
           ELSE [db |-> db, resp |-> [op |-> "get_catalog", status |-> 200,
                                      detail |-> "ok", request |-> request,
                                      products |-> [i \in 1..Len(uids) |-> expanded[i].body],
                                      count |-> total_count]]
           : ordered \in ordered_rows(db, request.sort, rows) }

-----------------------------------------------------------------------------
(* app/routers/catalog.py: the facets *)

\* groups[pp.value_uid] = groups.get(pp.value_uid, 0) + 1 over the rows
value_groups(rows) ==
    [v \in { rows[i].value_uid : i \in 1..Len(rows) } |->
        Cardinality({ i \in 1..Len(rows) : rows[i].value_uid = v })]

\* min_value and max_value over the int_values that are not None
min_max(rows) ==
    LET values == { rows[i].int_value[1] :
                      i \in { k \in 1..Len(rows) : rows[k].int_value # NoInt } } IN
    IF values # {}
    THEN [kind |-> "min_max",
          min_value |-> <<CHOOSE v \in values : \A w \in values : v <= w>>,
          max_value |-> <<CHOOSE v \in values : \A w \in values : v >= w>>]
    ELSE [kind |-> "min_max", min_value |-> NoInt, max_value |-> NoInt]

\* the statistic of one property over the matched products
property_stat(db, product_ids, prop_uid) ==
    LET mine(pp) == pp.product_uid \in product_ids /\ pp.property_uid = prop_uid
        q == SelectSeq(db.product_properties, mine) IN
    IF db.properties[prop_uid].type = "list"
    THEN [kind |-> "groups", groups |-> value_groups(q)]
    ELSE min_max(q)

\* the loop over the properties: result[prop.uid] = ... on the dict that
\* already holds 'count'
RECURSIVE facet_result(_, _, _, _)
facet_result(db, product_ids, todo, result) ==
    IF todo = {} THEN result
    ELSE LET prop_uid == CHOOSE u \in todo : TRUE IN
         facet_result(db, product_ids, todo \ {prop_uid},
                      With(result, prop_uid, property_stat(db, product_ids, prop_uid)))

(* GET /catalog/filter/ *)
catalog_filter(db, request) ==
    LET filters == request_filters(request.params) IN
    IF filters_raise(filters)
    THEN [db |-> db, resp |-> [op |-> "catalog_filter", status |-> 500,
                               detail |-> "ValueError", request |-> request]]
    ELSE LET product_ids == distinct_products(joined_rows(db, request.name, filters))
             counted == [key \in {"count"} |->
                            [kind |-> "count", count |-> Cardinality(product_ids)]] IN
         [db |-> db, resp |-> [op |-> "catalog_filter", status |-> 200,
                               detail |-> "ok", request |-> request,
                               result |-> facet_result(db, product_ids,
                                                       DOMAIN db.properties, counted)]]

-----------------------------------------------------------------------------
(* Requests of the catalog and the stores they are served from *)

\* most query parameters of one catalog request
MaxParams == 2

Pages == {1, 2}
PageSizes == {1, 2}
Sorts == {"uid", "name"}
\* the name parameter; <<>> is no name (None and '' are both falsy)
NameFilters == {<<>>, <<"V">>}

\* query parameters: the key split at its underscores, and the value
QueryParams ==
    { [key |-> <<"property", "size">>, value |-> "a"],
      [key |-> <<"property", "size", "from">>, value |-> "10"],
      [key |-> <<"property", "size", "from">>, value |-> "x"],
      [key |-> <<"property", "size", "to">>, value |-> "5"],
      [key |-> <<"property", "count">>, value |-> "a"] }

\* GET /catalog/ requests: every filter on the first page in uid order, and
\* every page, page size and sort key under at most one filter parameter
CatalogRequests ==
    [page : {1}, page_size : {2}, name : NameFilters, sort : {"uid"},
     params : SeqsUpTo(QueryParams, MaxParams)]
    \cup [page : Pages, page_size : PageSizes, name : NameFilters, sort : Sorts,
          params : SeqsUpTo(QueryParams, 1)]

\* GET /catalog/filter/ requests: every filter without a name, and a name
\* under at most one filter parameter
FilterRequests ==
    [name : {<<>>}, params : SeqsUpTo(QueryParams, MaxParams)]
    \cup [name : NameFilters, params : SeqsUpTo(QueryParams, 1)]

\* the scripts of write requests that build the stores the catalog is read
\* from: the schema, two products, and then possibly DELETE /properties/size,
\* possibly followed by a POST /properties/ of size as an Integer property
SchemaScripts ==
    { <<[op |-> "create_property",
         arg |-> [uid |-> "size", name |-> "N", type |-> "int"]]>>,
      <<[op |-> "create_property",
         arg |-> [uid |-> "size", name |-> "N", type |-> "list",
                  values |-> <<[value_uid |-> "a", value |-> "A"],
                               [value_uid |-> "b", value |-> "B"]>>]]>>,
      <<[op |-> "create_property",
         arg |-> [uid |-> "size", name |-> "N", type |-> "int"]],
        [op |-> "create_property",
         arg |-> [uid |-> "count", name |-> "N", type |-> "list",
                  values |-> <<[value_uid |-> "a", value |-> "A"]>>]]>>,
      <<[op |-> "create_property",
         arg |-> [uid |-> "size", name |-> "N", type |-> "list",
                  values |-> <<[value_uid |-> "a", value |-> "A"],
                               [value_uid |-> "b", value |-> "B"]>>]],
        [op |-> "create_property",
         arg |-> [uid |-> "count", name |-> "N", type |-> "list",
                  values |-> <<[value_uid |-> "a", value |-> "A"]>>]]>> }

CatalogAttrs ==
    { [uid |-> "size", value_uid |-> None, value |-> <<5>>],
      [uid |-> "size", value_uid |-> None, value |-> <<10>>],
      [uid |-> "size", value_uid |-> "a", value |-> NoInt],
      [uid |-> "size", value_uid |-> "b", value |-> NoInt],
      [uid |-> "count", value_uid |-> "a", value |-> NoInt] }

ProductScripts ==
    { <<[op |-> "create_product",
         arg |-> [uid |-> "p2", name |-> name2, properties |-> attrs2]],
        [op |-> "create_product",
         arg |-> [uid |-> "p1", name |-> <<"t", "v">>, properties |-> attrs1]]>> :
        name2 \in ProductNames,
        attrs1 \in SeqsUpTo(CatalogAttrs, 2),
        attrs2 \in SeqsUpTo(CatalogAttrs, 1) }

TailScripts ==
    { <<>>,
      <<[op |-> "delete_property", arg |-> "size"]>>,
      <<[op |-> "delete_property", arg |-> "size"],
        [op |-> "create_property",
         arg |-> [uid |-> "size", name |-> "N", type |-> "int"]]>> }

CatalogScripts ==
    { schema \o prods \o tail :
        schema \in SchemaScripts, prods \in ProductScripts, tail \in TailScripts }

\* the database after the requests of a script, served in order
RECURSIVE run_script(_, _)
run_script(db, script) ==
    IF script = <<>> THEN db
    ELSE LET step == Head(script) IN
         run_script(
            CASE step.op = "create_property" -> create_property(db, step.arg).db
              [] step.op = "create_product" -> create_product(db, step.arg).db
              [] step.op = "delete_property" -> delete_property(db, step.arg).db,
            Tail(script))

\* range requests: GET /catalog/ with the default page, page size and sort
\* and bounds on the Integer property size
RangeParams ==
    { [key |-> <<"property", "size", "from">>, value |-> "10"],
      [key |-> <<"property", "size", "from">>, value |-> "16"],
      [key |-> <<"property", "size", "to">>, value |-> "10"],
      [key |-> <<"property", "size", "to">>, value |-> "5"] }

RangeRequests ==
    [page : {1}, page_size : {10}, name : {<<>>}, sort : {"uid"},
     params : SeqsUpTo(RangeParams, MaxParams)]

\* the stores the range requests are served from: size is an Integer
\* property and three products hold values of it among 5, 10 and 15
RangeAttrs ==
    { [uid |-> "size", value_uid |-> None, value |-> <<v>>] : v \in {5, 10, 15} }

RangeScripts ==
    { <<[op |-> "create_property",
         arg |-> [uid |-> "size", name |-> "N", type |-> "int"]],
        [op |-> "create_product",
         arg |-> [uid |-> "p1", name |-> <<"T">>, properties |-> attrs1]],
        [op |-> "create_product",
         arg |-> [uid |-> "p2", name |-> <<"T">>, properties |-> attrs2]],
        [op |-> "create_product",
         arg |-> [uid |-> "p3", name |-> <<"T">>, properties |-> attrs3]]>> :
        attrs1 \in SeqsUpTo(RangeAttrs, MaxAttrs),
        attrs2 \in SeqsUpTo(RangeAttrs, 1),
        attrs3 \in SeqsUpTo(RangeAttrs, 1) }

\* the schema and the attributes of the two requests that race
RaceSchema ==
    <<[op |-> "create_property",
       arg |-> [uid |-> "size", name |-> "N", type |-> "int"]],
      [op |-> "create_property",
       arg |-> [uid |-> "count", name |-> "N", type |-> "list",
                values |-> <<[value_uid |-> "a", value |-> "A"]>>]]>>

\* the two requests, by their place in sessions
RaceIds == {1, 2}

RaceAttrs ==
    { [uid |-> "size", value_uid |-> None, value |-> <<5>>],
      [uid |-> "count", value_uid |-> "a", value |-> NoInt],
      [uid |-> "nope", value_uid |-> "a", value |-> <<5>>] }

-----------------------------------------------------------------------------
(* Actions *)

Commit(r) ==
    /\ properties' = r.db.properties
    /\ property_values' = r.db.property_values
    /\ products' = r.db.products
    /\ product_properties' = r.db.product_properties
    /\ fkEnforced' = r.db.fkEnforced
    /\ resp' = r.resp
    /\ UNCHANGED sessions

CreateProperty(prop_in) ==
    /\ prop_in \in PropertyInputs
    /\ Commit(create_property(DB, prop_in))

DeleteProperty(uid) ==
    /\ uid \in PropUids
    /\ Commit(delete_property(DB, uid))

\* the table is let to grow to MaxRows rows
CreateProduct(product_in) ==
    /\ Len(product_properties) + Len(product_in.properties) <= MaxRows
    /\ Commit(create_product(DB, product_in))

DeleteProduct(uid) ==
    /\ uid \in ProdUids
    /\ Commit(delete_product(DB, uid))

GetProduct(uid) ==
    /\ uid \in ProdUids
    /\ Commit(get_product(DB, uid))

Init ==
    /\ properties = EmptyFn
    /\ property_values = <<>>
    /\ products = EmptyFn
    /\ product_properties = <<>>
    /\ fkEnforced \in BOOLEAN
    /\ resp = [op |-> "start", uid |-> "", status |-> 200, detail |-> ""]
    /\ sessions = <<>>

Next ==
    \/ \E prop_in \in PropertyInputs : CreateProperty(prop_in)
    \/ \E uid \in PropUids : DeleteProperty(uid)
    \/ \E product_in \in ProductInputs : CreateProduct(product_in)
    \/ \E uid \in ProdUids : DeleteProduct(uid)
    \/ \E uid \in ProdUids : GetProduct(uid)

Spec == Init /\ [][Next]_vars

\* GET /catalog/: the rows that compare equal under the ORDER BY come in an
\* order the storage engine picks
GetCatalog(request) ==
    /\ request \in CatalogRequests
    /\ \E r \in get_catalog(DB, request) : Commit(r)

CatalogFilter(request) ==
    /\ request \in FilterRequests
    /\ Commit(catalog_filter(DB, request))

\* a store that a script of write requests built, on an engine that does not
\* enforce foreign keys (the stores of one that does are those among them
\* without a deleted property); no request served yet
InitCatalog ==
    /\ \E script \in CatalogScripts :
          LET db == run_script(EmptyDB(FALSE), script) IN
          /\ properties = db.properties
          /\ property_values = db.property_values
          /\ products = db.products
          /\ product_properties = db.product_properties
          /\ fkEnforced = db.fkEnforced
    /\ resp = [op |-> "start", uid |-> "", status |-> 200, detail |-> ""]
    /\ sessions = <<>>

\* the read handlers leave the database as it is, so every response to a read
\* is the response to the first read of a behaviour
FirstGetCatalog(request) ==
    /\ resp.op = "start"
    /\ GetCatalog(request)

FirstCatalogFilter(request) ==
    /\ resp.op = "start"
    /\ CatalogFilter(request)

NextCatalog ==
    \/ \E request \in CatalogRequests : FirstGetCatalog(request)
    \/ \E request \in FilterRequests : FirstCatalogFilter(request)

SpecCatalog == InitCatalog /\ [][NextCatalog]_vars

\* the store of a range script, no request served yet
InitRange ==
    /\ \E script \in RangeScripts :
          LET db == run_script(EmptyDB(FALSE), script) IN
          /\ properties = db.properties
          /\ property_values = db.property_values
          /\ products = db.products
          /\ product_properties = db.product_properties
          /\ fkEnforced = db.fkEnforced
    /\ resp = [op |-> "start", uid |-> "", status |-> 200, detail |-> ""]
    /\ sessions = <<>>

GetCatalogRange(request) ==
    /\ request \in RangeRequests
    /\ resp.op = "start"
    /\ \E r \in get_catalog(DB, request) : Commit(r)

NextRange == \E request \in RangeRequests : GetCatalogRange(request)

SpecRange == InitRange /\ [][NextRange]_vars

\* two POST /product/ requests of the uid p1 arrive together on a store that
\* holds the schema and no product; each has its own session
InitRace ==
    /\ LET db == run_script(EmptyDB(FALSE), RaceSchema) IN
       /\ properties = db.properties
       /\ property_values = db.property_values
       /\ products = db.products
       /\ product_properties = db.product_properties
       /\ fkEnforced = db.fkEnforced
    /\ resp = [op |-> "start", uid |-> "", status |-> 200, detail |-> ""]
    /\ \E attrs1, attrs2 \in SeqsUpTo(RaceAttrs, MaxAttrs) :
          sessions =
            <<[pc |-> "check", rows |-> <<>>, status |-> 0, detail |-> "",
               product_in |-> [uid |-> "p1", name |-> <<"t", "v">>, properties |-> attrs1]],
              [pc |-> "check", rows |-> <<>>, status |-> 0, detail |-> "",
               product_in |-> [uid |-> "p1", name |-> <<"T">>, properties |-> attrs2]]>>

\* the request ends: its response is sent
Respond(n, status, detail, at) ==
    /\ sessions' = [sessions EXCEPT ![n].pc = "done", ![n].status = status,
                                    ![n].detail = detail]
    /\ resp' = [op |-> "create_product", uid |-> sessions[n].product_in.uid,
                status |-> status, detail |-> detail, at |-> at]

\* if db.query(Product).filter(Product.uid == product_in.uid).first(): raise
CheckExists(n) ==
    /\ n \in RaceIds
    /\ sessions[n].pc = "check"
    /\ IF sessions[n].product_in.uid \in DOMAIN products
       THEN Respond(n, 400, "DuplicateKey", 0)
       ELSE /\ sessions' = [sessions EXCEPT ![n].pc = "validate"]
            /\ UNCHANGED resp
    /\ UNCHANGED <<properties, property_values, products, product_properties,
                   fkEnforced>>

\* the loop over product_in.properties: the assignments are built on the
\* Product object, which no session has added yet
ValidateAttributes(n) ==
    /\ n \in RaceIds
    /\ sessions[n].pc = "validate"
    /\ LET built == product_props(DB, sessions[n].product_in, 1, <<>>) IN
       IF built.error # ""
       THEN Respond(n, 400, built.error, built.at)
       ELSE /\ sessions' = [sessions EXCEPT ![n].pc = "commit", ![n].rows = built.rows]
            /\ UNCHANGED resp
    /\ UNCHANGED <<properties, property_values, products, product_properties,
                   fkEnforced>>

\* db.add(product); db.commit(): the INSERT into products fails on the
\* primary key when the uid is there by now; the IntegrityError is caught
\* nowhere, the session is closed without a commit and the server answers 500
CommitProduct(n) ==
    /\ n \in RaceIds
    /\ sessions[n].pc = "commit"
    /\ IF sessions[n].product_in.uid \in DOMAIN products
       THEN /\ Respond(n, 500, "IntegrityError", 0)
            /\ UNCHANGED <<products, product_properties>>
       ELSE /\ Respond(n, 201, "created", 0)
            /\ products' = With(products, sessions[n].product_in.uid,
                                [name |-> sessions[n].product_in.name])
            /\ product_properties' = product_properties \o sessions[n].rows
    /\ UNCHANGED <<properties, property_values, fkEnforced>>

NextRace ==
    \/ \E n \in RaceIds : CheckExists(n)
    \/ \E n \in RaceIds : ValidateAttributes(n)
    \/ \E n \in RaceIds : CommitProduct(n)

SpecRace == InitRace /\ [][NextRace]_vars

-----------------------------------------------------------------------------
(* The database after the step *)
DBnext ==
    [properties |-> properties', property_values |-> property_values',
     products |-> products', product_properties |-> product_properties',
     fkEnforced |-> fkEnforced']

Range(f) == { f[x] : x \in DOMAIN f }

\* the rows of product_properties whose Property resolves
ResolvedRows ==
    { i \in 1..Len(product_properties) :
        product_properties[i].property_uid \in DOMAIN properties }

\* C4: every ProductProperty whose Property resolves has the payload of that
\* Property's current type: int_value set and value_uid empty for int, a
\* value_uid among the Property's current PropertyValue rows for list.
C4_PayloadMatchesKind ==
    \A i \in ResolvedRows :
        LET pp == product_properties[i] IN
        IF properties[pp.property_uid].type = "int"
        THEN pp.int_value # NoInt /\ pp.value_uid = None
        ELSE \E k \in 1..Len(property_values) :
                /\ property_values[k].property_uid = pp.property_uid
                /\ property_values[k].value_uid = pp.value_uid

\* C5: a read of a product that exists completes successfully, also after a
\* Property its assignments reference was deleted.
C5_ReadsSurviveDeletedProperty ==
    (resp.op = "get_product" /\ resp.uid \in DOMAIN products) => resp.status = 200

\* C6: no Property owns two PropertyValue rows with the same value_uid.
C6_ValueUidUniquePerProperty ==
    \A i, k \in 1..Len(property_values) :
        (i # k /\ property_values[i].property_uid = property_values[k].property_uid)
            => property_values[i].value_uid # property_values[k].value_uid

\* C9: a create_product that fails leaves all four tables as they were, and
\* when the uid was new a get of it then reports NotFound.
C9_FailedCreateChangesNothing ==
    [][(resp'.op = "create_product" /\ resp'.status = 400) =>
          /\ UNCHANGED <<properties, property_values, products, product_properties>>
          /\ (resp'.detail # "DuplicateKey"
                => get_product(DBnext, resp'.uid).resp.status = 404)]_vars

\* C9 witness: a create of a new uid was refused at its second attribute,
\* after a first attribute that was valid.
C9_Witness ==
    /\ resp.op = "create_product"
    /\ resp.status = 400
    /\ resp.detail = "InvalidValue"
    /\ resp.at = 2
    /\ resp.uid \notin DOMAIN products

\* the entry get_product is to return for a supplied attribute: the supplied
\* integer for an int property; the supplied value_uid with the text of a
\* PropertyValue of that property with that value_uid for a list property
EntryMatches(db, entry, prop) ==
    /\ entry.uid = prop.uid
    /\ entry.name = db.properties[prop.uid].name
    /\ IF db.properties[prop.uid].type = "int"
       THEN entry.value = [int |-> prop.value, text |-> None]
       ELSE /\ entry.value_uid = prop.value_uid
            /\ entry.value.int = NoInt
            /\ \E k \in 1..Len(db.property_values) :
                  /\ db.property_values[k].property_uid = prop.uid
                  /\ db.property_values[k].value_uid = prop.value_uid
                  /\ db.property_values[k].value = entry.value.text

Bijections(n) == { f \in [1..n -> 1..n] : \A i, k \in 1..n : f[i] = f[k] => i = k }

\* C10: after a successful create_product (resp.request is the request it
\* served), get_product of that uid returns one entry per supplied attribute,
\* each resolved as EntryMatches says.
C10_GetAfterCreate ==
    (resp.op = "create_product" /\ resp.status = 201) =>
        LET product_in == resp.request
            got == get_product(DB, product_in.uid).resp
            n == Len(product_in.properties) IN
        /\ got.status = 200
        /\ got.body.uid = product_in.uid
        /\ got.body.name = product_in.name
        /\ Len(got.body.properties) = n
        /\ \E f \in Bijections(n) : \A i \in 1..n :
              EntryMatches(DB, got.body.properties[f[i]], product_in.properties[i])

\* C10 witness: a product was created with an integer and an enumerated
\* attribute.
C10_Witness ==
    /\ resp.op = "create_product"
    /\ resp.status = 201
    /\ \E i, k \in 1..Len(product_properties) :
          /\ product_properties[i].product_uid = resp.uid
          /\ product_properties[k].product_uid = resp.uid
          /\ product_properties[i].int_value # NoInt
          /\ product_properties[k].value_uid # None

\* the rows of a product_properties table that do not belong to a product
RowsOfOthers(rows, uid) ==
    LET others(pp) == pp.product_uid # uid IN SelectSeq(rows, others)

\* C11: a delete_product that succeeds removes the Product and every
\* ProductProperty row with its product_uid and leaves every Property, every
\* PropertyValue and every other Product with its rows as they were; one on a
\* missing uid answers NotFound and changes no table.
C11_DeleteProductFrame ==
    [][resp'.op = "delete_product" =>
          IF resp'.uid \in DOMAIN products
          THEN /\ resp'.status = 200
               /\ DOMAIN products' = DOMAIN products \ {resp'.uid}
               /\ \A uid \in DOMAIN products' : products'[uid] = products[uid]
               /\ \A i \in 1..Len(product_properties') :
                     product_properties'[i].product_uid # resp'.uid
               /\ product_properties' = RowsOfOthers(product_properties, resp'.uid)
               /\ UNCHANGED <<properties, property_values>>
          ELSE /\ resp'.status = 404
               /\ resp'.detail = "NotFound"
               /\ UNCHANGED <<properties, property_values, products,
                              product_properties>>]_vars

\* C11 witness: a product was deleted while another product with an
\* assignment, a Property and a PropertyValue were in the store, and they
\* are still there.
C11_Witness ==
    /\ resp.op = "delete_product"
    /\ resp.status = 200
    /\ resp.uid \notin DOMAIN products
    /\ products # EmptyFn
    /\ product_properties # <<>>
    /\ property_values # <<>>

-----------------------------------------------------------------------------
(* The catalog claims, on the response of the read just served *)

CatalogServed == resp.op = "get_catalog" /\ resp.status = 200
FacetsServed == resp.op = "catalog_filter" /\ resp.status = 200

\* the predicate mapping F of a request: property_uid -> set or range predicate
PredicatesOf(request) ==
    LET filters == request_filters(request.params) IN
    [u \in { filters[i].prop_uid : i \in 1..Len(filters) } |->
        LET f == CHOOSE g \in Range(filters) : g.prop_uid = u IN
        IF f.values # <<>>
        THEN [shape |-> "set", values |-> Range(f.values)]
        ELSE [shape |-> "range",
              from |-> IF given(f.from) THEN <<IntOf[f.from]>> ELSE NoInt,
              to |-> IF given(f.to) THEN <<IntOf[f.to]>> ELSE NoInt]]

\* does an assignment satisfy a predicate: its value_uid is in the set, or
\* its int_value lies within the bounds that are given, both inclusive
Satisfies(pp, pred) ==
    IF pred.shape = "set"
    THEN pp.value_uid \in pred.values
    ELSE /\ pp.int_value # NoInt
            \/ (pred.from = NoInt /\ pred.to = NoInt)
         /\ pred.from # NoInt => pp.int_value[1] >= pred.from[1]
         /\ pred.to # NoInt => pp.int_value[1] <= pred.to[1]

\* the products of the name-filtered set that have, for every filtered
\* property, an assignment on it that satisfies the predicate
Matching(request) ==
    LET F == PredicatesOf(request) IN
    { uid \in name_filtered(DB, request.name) :
        \A u \in DOMAIN F :
            \E i \in 1..Len(product_properties) :
                /\ product_properties[i].product_uid = uid
                /\ product_properties[i].property_uid = u
                /\ Satisfies(product_properties[i], F[u]) }

\* C1: the count of get_catalog is the number of distinct products (of the
\* name-filtered set) that satisfy every predicate of the filter mapping.
C1_CountIsDistinctConjunctive ==
    CatalogServed => resp.count = Cardinality(Matching(resp.request))

\* C1 witness: two filtered properties; of two products that both satisfy
\* the first, one satisfies the second too and is the only one counted.
C1_Witness ==
    /\ CatalogServed
    /\ Len(request_filters(resp.request.params)) = 2
    /\ resp.count = 1
    /\ Cardinality(Matching([resp.request EXCEPT
                               !.params = SubSeq(resp.request.params, 1, 1)])) = 2

\* C2: on page 1 with page_size >= count the page holds count products.
C2_FullPageHoldsCount ==
    (CatalogServed /\ resp.request.page = 1 /\ resp.request.page_size >= resp.count)
        => Len(resp.products) = resp.count

\* C3: with sort = name, products with equal names come in ascending uid order.
C3_TiesBrokenByUid ==
    (CatalogServed /\ resp.request.sort = "name") =>
        \A i, k \in 1..Len(resp.products) :
            (i < k /\ resp.products[i].name = resp.products[k].name)
                => UidCode[resp.products[i].uid] < UidCode[resp.products[k].uid]

\* the products with an assignment of int_value v on the property size
Holding(v) ==
    { uid \in DOMAIN products :
        \E i \in 1..Len(product_properties) :
            /\ product_properties[i].product_uid = uid
            /\ product_properties[i].property_uid = "size"
            /\ product_properties[i].int_value = <<v>> }

\* the products of a page
PageUids == { resp.products[i].uid : i \in 1..Len(resp.products) }

\* C12: a range filter on an Integer property is inclusive at both ends.
\* With values 5, 10 and 15 in the store, size_from=10 returns the products
\* holding 10 or 15, size_to=10 those holding 5 or 10, size_from=16 none; in
\* general the products returned (and counted) are those with an assignment
\* on the property that lies within every bound supplied.
C12_RangeInclusive ==
    (CatalogServed /\ resp.request \in RangeRequests) =>
        LET params == resp.request.params
            one(part, value) ==
                params = <<[key |-> <<"property", "size", part>>, value |-> value]>> IN
        /\ PageUids = Matching(resp.request)
        /\ resp.count = Cardinality(Matching(resp.request))
        /\ one("from", "10") => PageUids = Holding(10) \cup Holding(15)
        /\ one("to", "10") => PageUids = Holding(5) \cup Holding(10)
        /\ one("from", "16") => PageUids = {}

\* C12 witness: p1, p2 and p3 hold 5, 10 and 15, and size_from=10 was
\* answered with p2 and p3.
C12_Witness ==
    /\ CatalogServed
    /\ resp.request.params = <<[key |-> <<"property", "size", "from">>, value |-> "10"]>>
    /\ Holding(5) = {"p1"} /\ Holding(10) = {"p2"} /\ Holding(15) = {"p3"}
    /\ Len(product_properties) = 3
    /\ [i \in 1..Len(resp.products) |-> resp.products[i].uid] = <<"p2", "p3">>

\* is a query parameter a _from / _to key of a property that the request
\* also names by a bare key
ShadowedBound(params, p) ==
    /\ Len(p.key) >= 3
    /\ p.key[1] = "property"
    /\ p.key[Len(p.key)] \in {"from", "to"}
    /\ \E i \in 1..Len(params) : params[i].key = SubSeq(p.key, 1, Len(p.key) - 1)

HasBoth(request) ==
    \E i \in 1..Len(request.params) : ShadowedBound(request.params, request.params[i])

\* the request without those _from / _to keys
BareOnly(request) ==
    LET keep(p) == ~ ShadowedBound(request.params, p) IN
    [request EXCEPT !.params = SelectSeq(@, keep)]

\* C13: a request with bare property_<uid> keys and property_<uid>_from or
\* property_<uid>_to keys of the same uid, in any order, is answered by
\* get_catalog and by catalog_filter as the request without those bound keys
\* is: same outcome, same products and count, same facets.
C13_BoundsIgnoredBesideValues ==
    (resp.op \in {"get_catalog", "catalog_filter"} /\ HasBoth(resp.request)) =>
        IF resp.op = "get_catalog"
        THEN \E r \in get_catalog(DB, BareOnly(resp.request)) :
                /\ r.resp.status = resp.status
                /\ resp.status = 200
                      => (r.resp.products = resp.products /\ r.resp.count = resp.count)
        ELSE LET r == catalog_filter(DB, BareOnly(resp.request)) IN
             /\ r.resp.status = resp.status
             /\ resp.status = 200 => r.resp.result = resp.result

\* C13 witness: size_from=10 came before size=a, and a product whose size
\* is the enumerated value a (it has no integer to compare) was returned.
C13_Witness ==
    /\ CatalogServed
    /\ resp.request.params =
          <<[key |-> <<"property", "size", "from">>, value |-> "10"],
            [key |-> <<"property", "size">>, value |-> "a"]>>
    /\ resp.count >= 1
    /\ Len(resp.products) >= 1

\* the rows of product_properties on a property that belong to the products
\* a request matches
MatchedAssignments(request, u) ==
    { i \in 1..Len(product_properties) :
        /\ product_properties[i].product_uid \in Matching(request)
        /\ product_properties[i].property_uid = u }

\* C14: for every Integer property, filtered or not, catalog_filter reports
\* the least and the greatest int_value of the assignments on it that belong
\* to the matched products, and reports null for both exactly when no matched
\* product has an assignment on it.
C14_MinMaxOverMatched ==
    FacetsServed =>
        \A u \in DOMAIN properties :
            properties[u].type = "int" =>
                LET assigned == MatchedAssignments(resp.request, u)
                    values == { product_properties[i].int_value : i \in assigned }
                    stat == resp.result[u] IN
                /\ stat.kind = "min_max"
                /\ (stat.min_value = NoInt /\ stat.max_value = NoInt) <=> assigned = {}
                /\ assigned # {} =>
                      /\ NoInt \notin values
                      /\ stat.min_value \in values
                      /\ stat.max_value \in values
                      /\ \A v \in values :
                            stat.min_value[1] <= v[1] /\ v[1] <= stat.max_value[1]

\* would the attributes of a request in flight pass the validation loop
ValidRequest(n) == product_props(DB, sessions[n].product_in, 1, <<>>).error = ""

\* C15: when two create_product requests of one uid with valid attributes
\* have both ended, under any interleaving of their steps, one of them has
\* won: the store holds the Product with its name and exactly its
\* assignments, and the other request has ended with DuplicateKey.
C15_LoserGetsDuplicateKey ==
    (/\ sessions # <<>>
     /\ \A n \in RaceIds : sessions[n].pc = "done" /\ ValidRequest(n)) =>
        \E w \in RaceIds :
            LET l == 3 - w
                uid == sessions[w].product_in.uid IN
            /\ sessions[w].status = 201
            /\ uid \in DOMAIN products
            /\ products[uid].name = sessions[w].product_in.name
            /\ ProductPropertiesOf(DB, uid) = sessions[w].rows
            /\ sessions[l].status = 400
            /\ sessions[l].detail = "DuplicateKey"

RECURSIVE SumOver(_, _)
SumOver(f, keys) ==
    IF keys = {} THEN 0
    ELSE LET key == CHOOSE x \in keys : TRUE IN f[key] + SumOver(f, keys \ {key})

\* C7: for every list property, the per-value counts of its group map add up
\* to the number of matched products with an assignment on that property.
C7_GroupCountsSumToProducts ==
    FacetsServed =>
        \A u \in DOMAIN properties :
            (properties[u].type = "list" /\ u \in DOMAIN resp.result
               /\ resp.result[u].kind = "groups") =>
                SumOver(resp.result[u].groups, DOMAIN resp.result[u].groups)
                  = Cardinality({ uid \in Matching(resp.request) :
                        \E i \in 1..Len(product_properties) :
                            /\ product_properties[i].product_uid = uid
                            /\ product_properties[i].property_uid = u })

\* C8: the facet output has a count entry, the number of distinct matching
\* products, and besides it one stat entry per Property, keyed by its uid.
C8_CountAndEveryProperty ==
    FacetsServed =>
        /\ "count" \in DOMAIN resp.result
        /\ resp.result["count"].kind = "count"
        /\ resp.result["count"].count = Cardinality(Matching(resp.request))
        /\ \A u \in DOMAIN properties :
              u \in DOMAIN resp.result /\ resp.result[u].kind \in {"groups", "min_max"}

====
